---------------------------- MODULE Spec2Model ----------------------------
(***************************************************************************)
(* A model of email_broadcaster.py: the EmailBroadcaster instance (its     *)
(* counters and results list), the two recipient loaders, the single-send  *)
(* operation and the bulk-send loop, one loop iteration per step.          *)
(*                                                                         *)
(* Strings are sequences of one-character strings, a pandas missing cell   *)
(* is the cell NaN, an exception is the name of its class.  Timestamps     *)
(* (datetime.now), from_name, api_key and the html_body/cc/bcc fields      *)
(* (html_body is None, cc and bcc are never passed by send_bulk_email) are *)
(* left out; delay_seconds is taken non-negative, so that time.sleep only  *)
(* blocks.                                                                 *)
(***************************************************************************)
EXTENDS Integers, Sequences, FiniteSets, TLC

VARIABLES
    sent_count,     \* self.sent_count
    failed_count,   \* self.failed_count
    results,        \* self.results
    loaded,         \* whether a loader has returned a DataFrame
    recipients,     \* the DataFrame the loader returned
    file,           \* state and columns of the file the last loader call was given
    pc,             \* "idle", or "loop" inside send_bulk_email
    batch_size,     \* send_bulk_email's batch_size argument
    pos,            \* 1-based position of the next row iterrows() yields
    op,             \* the operation that ran last (or is running)
    exc,            \* the exception it raised, or "none"
    ret,            \* what send_bulk_email returned
    summary,        \* what _print_summary printed
    outbox,         \* payloads posted by the current send_bulk_email call
    pauses,         \* after how many processed recipients the call slept
    calls,          \* send_bulk_email calls started on the instance
    sends,          \* send_single_email calls that have returned
    lastResp,       \* the outcome of the last outbound call
    lastResult      \* what the last send_single_email call returned

vars == << sent_count, failed_count, results, loaded, recipients, file, pc,
           batch_size, pos, op, exc, ret, summary, outbox, pauses, calls,
           sends, lastResp, lastResult >>

---------------------------------------------------------------------------
(* Bounds of the model *)

MaxRows == 3

MaxBatch == 2

MaxCalls == 2

MaxSingle == 2

(* "max 10 sesuai API limit" *)
ApiBatchLimit == 10

---------------------------------------------------------------------------
(* Cells and strings *)

Str(cs) == [kind |-> "str", chars |-> cs]

NaN == [kind |-> "nan", chars |-> <<>>]

Rep(c, n) == [i \in 1..n |-> c]

RECURSIVE Flatten(_)
Flatten(ss) == IF ss = <<>> THEN <<>> ELSE Head(ss) \o Flatten(Tail(ss))

(* [^\s@] *)
IsPlain(c) == c \notin {" ", "@"}

(* str.match(r'^[^\s@]+@[^\s@]+\.[^\s@]+$') on one string cell *)
EmailMatch(s) ==
    \E i, j \in 1..Len(s) :
        /\ 1 < i /\ i + 1 < j /\ j < Len(s)
        /\ s[i] = "@" /\ s[j] = "."
        /\ \A k \in 1..Len(s) : k # i => IsPlain(s[k])

(* The cells of the r-th data row (r from 0) of the files of the model: a   *)
(* well-formed address and a name that differ from row to row, an address  *)
(* without "@", one with a space, and the missing cell.                    *)
GoodEmail(r) == Rep("u", r + 1) \o <<"@", "x", ".", "i", "o">>

BadEmails == { <<"n", "o", "t", "-", "a", "n">>, <<"a", " ", "b", "@", "x", ".", "y">> }

GoodName(r) == <<"N">> \o Rep("a", r)

EmailCells(r) == {Str(GoodEmail(r)), NaN} \cup {Str(b) : b \in BadEmails}

NameCells(r) == {Str(GoodName(r)), NaN}

---------------------------------------------------------------------------
(* Files *)

RequiredColumns == {"nama", "email"}

RECURSIVE RowsOfLength(_)
RowsOfLength(n) ==
    IF n = 0 THEN {<<>>}
    ELSE { Append(rows, [nama |-> a, email |-> e]) :
               rows \in RowsOfLength(n - 1), a \in NameCells(n - 1), e \in EmailCells(n - 1) }

Table(cols, rows) == [state |-> "table", columns |-> cols, rows |-> rows]

MissingFile == [state |-> "missing", columns |-> {}, rows |-> <<>>]

CorruptFile == [state |-> "corrupt", columns |-> {}, rows |-> <<>>]

UniformRows(n) == [i \in 1..n |-> [nama |-> Str(GoodName(i - 1)), email |-> Str(GoodEmail(i - 1))]]

(* Every file of the model: absent, unparsable, a table without one of the *)
(* required columns, a table of up to MaxRows rows.                        *)
Files ==
    {MissingFile, CorruptFile}
    \cup {Table(cols, <<>>) : cols \in (SUBSET RequiredColumns) \ {RequiredColumns}}
    \cup UNION {{Table(RequiredColumns, rows) : rows \in RowsOfLength(n)} : n \in 0..MaxRows}

(* Files whose rows are all well-formed, one of them longer than the API   *)
(* limit.                                                                  *)
LongRows == ApiBatchLimit + 1

CleanFiles ==
    {MissingFile}
    \cup {Table(RequiredColumns, UniformRows(n)) : n \in (0..MaxRows) \cup {LongRows}}

---------------------------------------------------------------------------
(* load_recipients_from_csv, load_recipients_from_excel *)

(* pd.read_csv / pd.read_excel: a RangeIndex over the rows read *)
ReadFrame(f) == [i \in 1..Len(f.rows) |-> [idx |-> i - 1, nama |-> f.rows[i].nama, email |-> f.rows[i].email]]

(* df.dropna(subset=['email']): the rows kept keep their index labels *)
DropNaEmail(df) == LET Keep(row) == row.email.kind = "str" IN SelectSeq(df, Keep)

(* df[df['email_valid']] *)
DropInvalidEmail(df) == LET Keep(row) == EmailMatch(row.email.chars) IN SelectSeq(df, Keep)

(* A column read with every cell missing is a float64 column, on which the *)
(* .str accessor raises AttributeError.                                    *)
EmailColumnIsFloat(df) == df # <<>> /\ \A i \in 1..Len(df) : df[i].email.kind = "nan"

(* The try block: the exception class it raises ("none": it returns df) *)
LoadBody(f) ==
    IF f.state = "missing" THEN [raises |-> "FileNotFoundError", df |-> <<>>]
    ELSE IF f.state = "corrupt" THEN [raises |-> "ParserError", df |-> <<>>]
    ELSE IF RequiredColumns \ f.columns # {} THEN [raises |-> "ValueError", df |-> <<>>]
    ELSE IF EmailColumnIsFloat(ReadFrame(f)) THEN [raises |-> "AttributeError", df |-> <<>>]
    ELSE [raises |-> "none", df |-> DropInvalidEmail(DropNaEmail(ReadFrame(f)))]

(* except FileNotFoundError: raise FileNotFoundError; except Exception:    *)
(* raise Exception                                                         *)
LoadHandlers(raised) ==
    IF raised = "none" THEN "none"
    ELSE IF raised = "FileNotFoundError" THEN "FileNotFoundError"
    ELSE "Exception"

load_recipients_from_csv(f) ==
    LET b == LoadBody(f) IN [raises |-> LoadHandlers(b.raises), df |-> b.df]

load_recipients_from_excel(f) ==
    LET b == LoadBody(f) IN [raises |-> LoadHandlers(b.raises), df |-> b.df]


---------------------------------------------------------------------------
(* The outbound call and its response *)

(* What requests.post does: it raises, or it returns a response with a     *)
(* status code and a body.  The body is not JSON ("invalid"), JSON that is *)
(* no object ("not_object"), or an object whose success, data and error    *)
(* members are each absent or of one of the shapes below.  A body that is  *)
(* not JSON makes response.json() raise requests' JSONDecodeError (a       *)
(* RequestException) or, with requests before 2.27, a plain ValueError.    *)
Resp(kind, raises, status, json, success, data, error) ==
    [kind |-> kind, raises |-> raises, status |-> status, json |-> json,
     success |-> success, data |-> data, error |-> error]

TransportErrors == {"Timeout", "ConnectionError"}

JsonErrors == {"JSONDecodeError", "ValueError"}

SuccessShapes == {"absent", "true", "false", "truthy"}

DataShapes == {"absent", "with_id", "without_id", "not_object"}

ErrorShapes == {"absent", "with_message", "without_message", "not_object"}

StatusCodes == {200, 500}

Responses ==
    {Resp("raise", e, 0, "-", "-", "-", "-") : e \in TransportErrors \cup {"RuntimeError"}}
    \cup {Resp("http", e, st, "invalid", "-", "-", "-") : e \in JsonErrors, st \in StatusCodes}
    \cup {Resp("http", "none", st, "not_object", "-", "-", "-") : st \in StatusCodes}
    \cup {Resp("http", "none", st, "object", s, d, e) :
              st \in StatusCodes, s \in SuccessShapes, d \in DataShapes, e \in ErrorShapes}

(* The documented contract: {success: true, data: {messageId}} on 200,     *)
(* {error: {message}} otherwise.                                           *)
OkResponse == Resp("http", "none", 200, "object", "true", "with_id", "absent")

ErrorResponse == Resp("http", "none", 500, "object", "absent", "absent", "with_message")

ContractResponses == {OkResponse, ErrorResponse}

(* The responses the loop of the full model is given: the two of the       *)
(* contract, a timeout, and a success response whose data is null.         *)
LoopResponses ==
    ContractResponses
    \cup {Resp("raise", "Timeout", 0, "-", "-", "-", "-"),
          Resp("http", "none", 200, "object", "true", "not_object", "absent")}

ProviderMessageId == <<"m", "1">>

ProviderErrorMessage == <<"q", "u", "o", "t", "a">>

IsRequestException(e) == e \in TransportErrors \cup {"JSONDecodeError"}

(* Python's truth value of result.get('success') *)
Truthy(s) == s \in {"true", "truthy"}

---------------------------------------------------------------------------
(* send_single_email *)

Placeholder == "{nama}"

(* str.replace("{nama}", to_name) on a template given as its pieces *)
Replace(template, name) ==
    Flatten([i \in 1..Len(template) |->
                 IF template[i] = Placeholder THEN name.chars ELSE <<template[i]>>])

Subject == <<"H", "i", " ", Placeholder>>

Body == <<Placeholder, ",", " ", "h", "i", " ", Placeholder>>

NoResult == [status |-> "none", email |-> NaN, name |-> NaN, message |-> <<>>, message_id |-> <<>>]

NoPayload == [endpoint |-> "none", to |-> NaN, subject |-> <<>>, body |-> <<>>]

Payload(to_email, subject, body) ==
    [endpoint |-> "send-email", to |-> to_email, subject |-> subject, body |-> body]

SuccessResult(to_email, to_name, id) ==
    [status |-> "success", email |-> to_email, name |-> to_name,
     message |-> <<"Email sent successfully">>, message_id |-> id]

FailedResult(to_email, to_name, msg) ==
    [status |-> "failed", email |-> to_email, name |-> to_name,
     message |-> msg, message_id |-> <<"absent">>]

(* result.get('data', {}).get('messageId') *)
MessageIdOf(data) == IF data = "with_id" THEN ProviderMessageId ELSE <<"None">>

(* result.get('error', {}).get('message', 'Unknown error') *)
ErrorMessageOf(error) == IF error = "with_message" THEN ProviderErrorMessage ELSE <<"Unknown error">>

Outcome(raises, sc, fc, result) == [raises |-> raises, sent_count |-> sc, failed_count |-> fc, result |-> result]

(* self.sent_count += 1, then the success result is built *)
SuccessBranch(sc, fc, to_email, to_name, resp) ==
    IF resp.data = "not_object" THEN Outcome("AttributeError", sc + 1, fc, NoResult)
    ELSE Outcome("none", sc + 1, fc, SuccessResult(to_email, to_name, MessageIdOf(resp.data)))

(* self.failed_count += 1, then the failed result is built *)
FailedBranch(sc, fc, to_email, to_name, resp) ==
    IF resp.json = "not_object" \/ resp.error = "not_object"
    THEN Outcome("AttributeError", sc, fc + 1, NoResult)
    ELSE Outcome("none", sc, fc + 1, FailedResult(to_email, to_name, ErrorMessageOf(resp.error)))

(* The try block: requests.post, response.json(), the classification *)
TryBlock(sc, fc, to_email, to_name, resp) ==
    IF resp.kind = "raise" THEN Outcome(resp.raises, sc, fc, NoResult)
    ELSE IF resp.json = "invalid" THEN Outcome(resp.raises, sc, fc, NoResult)
    ELSE IF resp.status = 200
    THEN IF resp.json = "not_object" THEN Outcome("AttributeError", sc, fc, NoResult)
         ELSE IF Truthy(resp.success) THEN SuccessBranch(sc, fc, to_email, to_name, resp)
         ELSE FailedBranch(sc, fc, to_email, to_name, resp)
    ELSE FailedBranch(sc, fc, to_email, to_name, resp)

(* except RequestException / except Exception *)
ExceptBlocks(t, to_email, to_name) ==
    IF t.raises = "none" THEN t
    ELSE IF IsRequestException(t.raises)
    THEN Outcome("none", t.sent_count, t.failed_count + 1,
                 FailedResult(to_email, to_name, <<"Request error: ", t.raises>>))
    ELSE Outcome("none", t.sent_count, t.failed_count + 1,
                 FailedResult(to_email, to_name, <<"Unexpected error: ", t.raises>>))

(* The whole call: what it raises, the counters after it, the result it    *)
(* returns, the payload it posted.  The personalisation is outside the     *)
(* try block, and str.replace raises TypeError on a name that is no str.   *)
send_single_email(sc, fc, to_email, to_name, resp) ==
    IF to_name.kind # "str"
    THEN [raises |-> "TypeError", sent_count |-> sc, failed_count |-> fc,
          result |-> NoResult, posted |-> NoPayload]
    ELSE LET payload == Payload(to_email, Replace(Subject, to_name), Replace(Body, to_name))
             o == ExceptBlocks(TryBlock(sc, fc, to_email, to_name, resp), to_email, to_name)
         IN [raises |-> o.raises, sent_count |-> o.sent_count, failed_count |-> o.failed_count,
             result |-> o.result, posted |-> payload]


---------------------------------------------------------------------------
(* _print_summary *)

NoSummary == [total |-> -1, sent |-> -1, failed |-> -1, rate |-> <<0, 0>>]

(* The success rate is kept as the fraction sent_count * 100 / len(results) *)
(* the f-string formats; the division raises on an empty list.             *)
print_summary(rs, sc, fc) ==
    IF Len(rs) = 0
    THEN [raises |-> "ZeroDivisionError", summary |-> NoSummary]
    ELSE [raises |-> "none",
          summary |-> [total |-> Len(rs), sent |-> sc, failed |-> fc, rate |-> <<sc * 100, Len(rs)>>]]

---------------------------------------------------------------------------
(* send_bulk_email *)

(* Python's a % b; b = 0 raises ZeroDivisionError before it is used *)
PyMod(a, b) == IF b > 0 THEN a % b ELSE -((-a) % (-b))

(* A results list kept newest first *)
AppendResultFront(rs, r) == <<r>> \o rs

(* self.results.append(result) *)
AppendResult(rs, r) == Append(rs, r)

(* (idx + 1) % batch_size == 0 and (idx + 1) < total_recipients, idx the   *)
(* row's index label                                                       *)
PauseDue(idx, bs, total) == PyMod(idx + 1, bs) = 0 /\ idx + 1 < total

(* self.results = [] at the start of the call; the counters are left alone *)
ResetSession(sc, fc) == [sent_count |-> sc, failed_count |-> fc, results |-> <<>>]

NoResp == [kind |-> "none", raises |-> "none", status |-> 0, json |-> "-",
           success |-> "-", data |-> "-", error |-> "-"]

NoFile == [state |-> "none", columns |-> {}]

---------------------------------------------------------------------------
(* The state machine *)

Init ==
    /\ sent_count = 0
    /\ failed_count = 0
    /\ results = <<>>
    /\ loaded = FALSE
    /\ recipients = <<>>
    /\ file = NoFile
    /\ pc = "idle"
    /\ batch_size = ApiBatchLimit
    /\ pos = 1
    /\ op = "__init__"
    /\ exc = "none"
    /\ ret = <<>>
    /\ summary = NoSummary
    /\ outbox = <<>>
    /\ pauses = <<>>
    /\ calls = 0
    /\ sends = 0
    /\ lastResp = NoResp
    /\ lastResult = NoResult

Loaded(name, f, r) ==
    /\ file' = [state |-> f.state, columns |-> f.columns]
    /\ op' = name
    /\ exc' = r.raises
    /\ loaded' = (r.raises = "none")
    /\ recipients' = r.df
    /\ UNCHANGED << sent_count, failed_count, results, pc, batch_size, pos, ret, summary,
                    outbox, pauses, calls, sends, lastResp, lastResult >>

LoadCsv(F) ==
    /\ pc = "idle" /\ ~loaded
    /\ \E f \in F : Loaded("load_recipients_from_csv", f, load_recipients_from_csv(f))

LoadExcel(F) ==
    /\ pc = "idle" /\ ~loaded
    /\ \E f \in F : Loaded("load_recipients_from_excel", f, load_recipients_from_excel(f))

(* Lines 247-252: the call starts *)
StartBulk(B) ==
    /\ pc = "idle" /\ loaded /\ calls < MaxCalls
    /\ \E b \in B :
        LET s == ResetSession(sent_count, failed_count) IN
        /\ batch_size' = b
        /\ sent_count' = s.sent_count
        /\ failed_count' = s.failed_count
        /\ results' = s.results
    /\ pc' = "loop"
    /\ pos' = 1
    /\ op' = "send_bulk_email"
    /\ exc' = "none"
    /\ ret' = <<>>
    /\ summary' = NoSummary
    /\ outbox' = <<>>
    /\ pauses' = <<>>
    /\ calls' = calls + 1
    /\ lastResp' = NoResp
    /\ lastResult' = NoResult
    /\ UNCHANGED << loaded, recipients, file, sends >>

(* Lines 255-280: one iteration of the loop *)
LoopIter(R) ==
    /\ pc = "loop" /\ pos <= Len(recipients)
    /\ \E resp \in R :
        LET row == recipients[pos]
            r == send_single_email(sent_count, failed_count, row.email, row.nama, resp)
        IN
        /\ sent_count' = r.sent_count
        /\ failed_count' = r.failed_count
        /\ IF r.raises # "none"
           THEN /\ exc' = r.raises
                /\ pc' = "idle"
                /\ UNCHANGED << results, pos, pauses, outbox, sends, lastResp, lastResult >>
           ELSE /\ results' = AppendResult(results, r.result)
                /\ outbox' = Append(outbox, r.posted)
                /\ sends' = sends + 1
                /\ lastResp' = resp
                /\ lastResult' = r.result
                /\ pos' = pos + 1
                /\ IF batch_size = 0
                   THEN exc' = "ZeroDivisionError" /\ pc' = "idle" /\ UNCHANGED pauses
                   ELSE /\ UNCHANGED << exc, pc >>
                        /\ pauses' = IF PauseDue(row.idx, batch_size, Len(recipients))
                                     THEN Append(pauses, pos) ELSE pauses
    /\ UNCHANGED << loaded, recipients, file, batch_size, op, ret, summary, calls >>

(* Lines 283-285: the loop is over; the summary, then the return *)
FinishBulk ==
    /\ pc = "loop" /\ pos > Len(recipients)
    /\ LET p == print_summary(results, sent_count, failed_count) IN
        /\ exc' = p.raises
        /\ summary' = p.summary
        /\ ret' = IF p.raises = "none" THEN results ELSE ret
    /\ pc' = "idle"
    /\ UNCHANGED << sent_count, failed_count, results, loaded, recipients, file, batch_size,
                    pos, op, outbox, pauses, calls, sends, lastResp, lastResult >>

(* send_single_email called on the instance, outside a bulk call *)
SingleRecipients == {[nama |-> n, email |-> Str(GoodEmail(0))] : n \in NameCells(0)}

DirectSend(R) ==
    /\ pc = "idle" /\ sends < MaxSingle
    /\ \E rcp \in SingleRecipients, resp \in R :
        LET r == send_single_email(sent_count, failed_count, rcp.email, rcp.nama, resp) IN
        /\ sent_count' = r.sent_count
        /\ failed_count' = r.failed_count
        /\ exc' = r.raises
        /\ lastResult' = r.result
        /\ lastResp' = IF r.raises = "none" THEN resp ELSE NoResp
        /\ sends' = IF r.raises = "none" THEN sends + 1 ELSE sends
    /\ op' = "send_single_email"
    /\ UNCHANGED << results, loaded, recipients, file, pc, batch_size, pos, ret, summary,
                    outbox, pauses, calls >>

BatchSizes == 0..MaxBatch

(* What int(input(...)) accepts at the prompt of main *)
PromptBatchSizes == {-1, 0, 1, ApiBatchLimit, ApiBatchLimit + 1}

(* The session: load a file, then bulk calls on the list loaded *)
Next ==
    \/ LoadCsv(Files)
    \/ LoadExcel(Files)
    \/ StartBulk(BatchSizes)
    \/ LoopIter(LoopResponses)
    \/ FinishBulk

Spec == Init /\ [][Next]_vars

(* The same session with well-formed files and a provider that keeps to    *)
(* its contract, and with the batch sizes the prompt accepts               *)
NextClean ==
    \/ LoadCsv(CleanFiles)
    \/ LoadExcel(CleanFiles)
    \/ StartBulk(PromptBatchSizes)
    \/ LoopIter(ContractResponses)
    \/ FinishBulk

SpecClean == Init /\ [][NextClean]_vars

(* Single sends on a fresh instance, over every response of the model *)
NextSingle == DirectSend(Responses)

SpecSingle == Init /\ [][NextSingle]_vars

---------------------------------------------------------------------------
(* Properties *)

InBulk == op = "send_bulk_email"

BulkEnded == op = "send_bulk_email" /\ pc = "idle"

BulkReturned == BulkEnded /\ exc = "none"

LoaderRan == op \in {"load_recipients_from_csv", "load_recipients_from_excel"}

SingleRan == op = "send_single_email"

CountStatus(rs, st) == Cardinality({i \in 1..Len(rs) : rs[i].status = st})

AttemptsTo(email) == Cardinality({i \in 1..Len(outbox) : outbox[i].to = email})

RecordedFor(email) == Cardinality({i \in 1..Len(results) : results[i].email = email})

(* The counts k <= n that are multiples of bs and smaller than total *)
ExpectedPauses(n, bs, total) ==
    LET Due(k) == k % bs = 0 /\ k < total IN SelectSeq([k \in 1..n |-> k], Due)

SendsSincePause == (pos - 1) - (IF pauses = <<>> THEN 0 ELSE pauses[Len(pauses)])

(* C1: a send_bulk_email call that returns yields one Send Result per      *)
(* recipient, the i-th carrying the email and the name of the i-th         *)
(* recipient of the list it was given.                                     *)
C1_ResultsFollowRecipients ==
    BulkReturned =>
        /\ Len(ret) = Len(recipients)
        /\ \A i \in 1..Len(recipients) :
            /\ ret[i].email = recipients[i].email
            /\ ret[i].name = recipients[i].nama
            /\ ret[i].status \in {"success", "failed"}

(* C1's case: a second call on the instance has returned the results of a  *)
(* list whose first row was dropped by the loader, one send failed and one *)
(* succeeded.                                                              *)
C1_Witness ==
    /\ BulkReturned
    /\ calls = 2
    /\ Len(ret) = 2
    /\ recipients[1].idx = 1
    /\ ret[1].status = "failed"
    /\ ret[2].status = "success"

(* C2: with batch_size >= 1 the call pauses exactly after the k-th         *)
(* processed recipient for every multiple k of batch_size below the number *)
(* of recipients, and nowhere else, whatever list it is given; a call that *)
(* returns has paused floor((N-1)/batch_size) times.                       *)
C2_PausesAtBatchBoundaries ==
    (InBulk /\ batch_size >= 1) =>
        /\ pauses = ExpectedPauses(pos - 1, batch_size, Len(recipients))
        /\ (BulkReturned /\ Len(recipients) >= 1) =>
               Len(pauses) = (Len(recipients) - 1) \div batch_size

(* C3: send_single_email never raises: every call ends in a Send Result    *)
(* whose status is success or failed.                                      *)
C3_SingleSendNeverRaises ==
    SingleRan => exc = "none" /\ lastResult.status \in {"success", "failed"}

(* C4: in send_bulk_email no recipient is attempted twice, every recipient *)
(* processed has one attempt and one result, and when the call is over     *)
(* every recipient of the list has been attempted exactly once.            *)
C4_OneAttemptEach ==
    InBulk =>
        \A i \in 1..Len(recipients) :
            /\ AttemptsTo(recipients[i].email) <= 1
            /\ i < pos => AttemptsTo(recipients[i].email) = 1 /\ RecordedFor(recipients[i].email) = 1
            /\ BulkEnded => AttemptsTo(recipients[i].email) = 1

(* C5: the session state is reset when a send_bulk_email call starts, and  *)
(* when a call returns the counters count the results of that call: the    *)
(* summary's sent + failed is its total.                                   *)
C5_SessionResetPerCall ==
    /\ (InBulk /\ pc = "loop" /\ pos = 1) =>
           sent_count = 0 /\ failed_count = 0 /\ results = <<>>
    /\ BulkReturned =>
           /\ sent_count = CountStatus(ret, "success")
           /\ failed_count = CountStatus(ret, "failed")
           /\ summary.sent + summary.failed = summary.total

(* C6: send_bulk_email on an empty list ends without an error, with a      *)
(* summary and an empty results list.                                      *)
C6_EmptyListSummary ==
    (BulkEnded /\ Len(recipients) = 0) =>
        exc = "none" /\ summary # NoSummary /\ ret = <<>>

(* C7: the result is success, with the provider's messageId, exactly when  *)
(* the response has status 200 and a true success flag; a failed result    *)
(* for a response that carries error.message has that message.             *)
C7_Classification ==
    (SingleRan /\ exc = "none" /\ lastResp.kind = "http") =>
        /\ lastResult.status = "success" <=> (lastResp.status = 200 /\ Truthy(lastResp.success))
        /\ (lastResult.status = "success" /\ lastResp.data = "with_id") =>
               lastResult.message_id = ProviderMessageId
        /\ (lastResult.status = "failed" /\ lastResp.error = "with_message") =>
               lastResult.message = ProviderErrorMessage

(* C8: the loader raises a FileNotFound error for a path that does not     *)
(* exist, and for a table without a required column an error that is       *)
(* neither FileNotFound nor the generic read error; it returns no list.    *)
C8_LoaderErrorKinds ==
    LoaderRan =>
        /\ file.state = "missing" => exc = "FileNotFoundError" /\ ~loaded
        /\ (file.state = "table" /\ RequiredColumns \ file.columns # {}) =>
               exc \notin {"none", "FileNotFoundError", "Exception"} /\ ~loaded

(* C9: whatever batch_size is given, the loop never does more than         *)
(* ApiBatchLimit sends in a row without a pause, and a batch_size of 0 or  *)
(* less does not make a call on a non-empty list raise.                    *)
C9_BatchAtMostLimit ==
    InBulk =>
        /\ SendsSincePause <= ApiBatchLimit
        /\ (batch_size <= 0 /\ Len(recipients) > 0) => exc = "none"

(* C9, its first half alone *)
C9_NoLongRun == InBulk => SendsSincePause <= ApiBatchLimit

(* C10: a send_single_email call that returns adds one to the counter of   *)
(* the status it returns and leaves the other alone, no counter ever       *)
(* decreases, and the counters add up to the number of sends returned.     *)
C10_Step ==
    /\ sent_count' >= sent_count
    /\ failed_count' >= failed_count
    /\ sent_count' + failed_count' = sends'
    /\ sends' = sends + 1 =>
        /\ lastResult'.status = "success" =>
               sent_count' = sent_count + 1 /\ failed_count' = failed_count
        /\ lastResult'.status = "failed" =>
               failed_count' = failed_count + 1 /\ sent_count' = sent_count

C10_OneCounterPerSend == [][C10_Step]_vars

=============================================================================
